---- MODULE Spec2Model ----
(***************************************************************************)
(* Model of simulate(simulation_months, config) of src/simulation.py, the  *)
(* monthly $POLN tokenomics simulation.                                    *)
(*                                                                         *)
(* Numbers.  The program computes with Python floats.  The model computes  *)
(* with exact rationals <<n, d>> (d > 0, lowest terms), so that equalities *)
(* such as "adds exactly X" are statements about the arithmetic the code   *)
(* writes down and not about binary rounding.                              *)
(*                                                                         *)
(* Control.  simulate is one sequential loop.  The variable pc is the      *)
(* position inside the loop body; there is one action per block of the     *)
(* body, in the order of the source.                                       *)
(***************************************************************************)
EXTENDS Integers, Sequences, FiniteSets, TLC

(***************************************************************************)
(* Bounds of the model.                                                    *)
(***************************************************************************)
\* simulation_months ranges over 1..MaxMonths
MaxMonths == 3
\* random.random() and random.uniform() are sampled on a grid of DrawGrid steps
DrawGrid == 4

(***************************************************************************)
(* Exact rational arithmetic (the float operators of the source).          *)
(***************************************************************************)
Abs(a) == IF a < 0 THEN -a ELSE a

RECURSIVE GCD(_, _)
GCD(a, b) == IF b = 0 THEN a ELSE GCD(b, a % b)

\* the rational n/d in lowest terms with a positive denominator (d # 0)
Norm(n, d) ==
    LET g == GCD(Abs(n), Abs(d))
        s == IF d < 0 THEN -1 ELSE 1
    IN  <<(s * n) \div g, (s * d) \div g>>

Q(n) == <<n, 1>>
Zero == Q(0)
One == Q(1)

LCM(a, b) == (a \div GCD(a, b)) * b

Add(x, y) ==
    LET l == LCM(x[2], y[2])
    IN  Norm(x[1] * (l \div x[2]) + y[1] * (l \div y[2]), l)

Neg(x) == <<-x[1], x[2]>>

Sub(x, y) == Add(x, Neg(y))

\* cross-cancelled product, so that intermediate values stay small
Mul(x, y) ==
    LET g1 == GCD(Abs(x[1]), y[2])
        g2 == GCD(Abs(y[1]), x[2])
    IN  IF x[1] = 0 \/ y[1] = 0 THEN Zero
        ELSE <<(x[1] \div g1) * (y[1] \div g2), (x[2] \div g2) * (y[2] \div g1)>>

\* x / y for y # 0
Div(x, y) ==
    Mul(x, IF y[1] < 0 THEN <<-y[2], -y[1]>> ELSE <<y[2], y[1]>>)

Lt(x, y) ==
    LET l == LCM(x[2], y[2])
    IN  x[1] * (l \div x[2]) < y[1] * (l \div y[2])

Le(x, y) == ~Lt(y, x)

Min(x, y) == IF Lt(y, x) THEN y ELSE x

Max(x, y) == IF Lt(x, y) THEN y ELSE x

\* Python's int(x): truncation toward zero
Trunc(x) == IF x[1] >= 0 THEN x[1] \div x[2] ELSE -((-x[1]) \div x[2])

RECURSIVE Pow2(_)
Pow2(k) == IF k = 0 THEN 1 ELSE 2 * Pow2(k - 1)

\* int(np.floor(np.log2(x))) for x > 0: the k with 2^k <= x < 2^(k+1)
RECURSIVE FloorLog2(_)
FloorLog2(x) ==
    IF Lt(x, One) THEN FloorLog2(Mul(x, Q(2))) - 1
    ELSE IF Lt(x, Q(2)) THEN 0
    ELSE FloorLog2(Div(x, Q(2))) + 1

RECURSIVE SumSeq(_)
SumSeq(s) == IF s = <<>> THEN Zero ELSE Add(Head(s), SumSeq(Tail(s)))

\* np.exp(x).  Every configuration of the model has growth_rate = 0, so the
\* exponent of the logistic curve is always 0; no other argument is defined.
Exp(x) == CASE x = Zero -> One

(***************************************************************************)
(* Configurations (the config dict read at lines 29-60).                   *)
(***************************************************************************)
BaseConfig ==
    [ total_supply                  |-> Q(100),
      initial_price                 |-> One,
      project_cost                  |-> Q(20),
      protocol_fee_rate             |-> <<1, 10>>,
      staking_rate                  |-> <<1, 2>>,
      mission_success_rate          |-> <<1, 2>>,
      pec                           |-> Zero,
      msi_bull                      |-> <<3, 2>>,
      msi_bear                      |-> <<1, 2>>,
      msi_normal                    |-> One,
      bull_market_probability       |-> <<1, 4>>,
      bear_market_probability       |-> <<1, 4>>,
      market_event_duration         |-> 2,
      random_fluctuation            |-> <<1, 2>>,
      carrying_capacity             |-> Q(4),
      growth_rate                   |-> Zero,
      inflection_point              |-> Q(2),
      seasonality                   |-> (2 :> <<1, 2>>),
      token_distribution            |->
          [ Builders |-> <<1, 5>>, DAOTreasury |-> <<1, 5>>,
            AirdropsGiveaways |-> <<1, 10>>, InitiatorRewards |-> <<1, 5>>,
            TestnetDevelopmentPartners |-> <<3, 25>> ],
      initiator_selling_percentage  |-> <<1, 2>>,
      dao_annual_consumption_rate   |-> Q(3),
      dao_consumption_start_month   |-> 2,
      fellowship_selling_percentage |-> <<1, 2>>,
      builders_selling_percentage   |-> <<1, 2>>,
      private_sales                 |->
          << [tokens_sold |-> Q(6), vesting_period |-> 2],
             [tokens_sold |-> Q(4), vesting_period |-> 1],
             [tokens_sold |-> Q(5), vesting_period |-> 0] >>,
      initiator_rewards_initial     |-> [monthly |-> Q(12)],
      minimum_reward_per_mission    |-> One,
      testnet_distribution_period   |-> 1,
      builders_lockup_period        |-> 1,
      builders_vesting_period       |-> 2 ]

\* supply almost entirely liquid from the start
LiquidDistribution ==
    [ Builders |-> Zero, DAOTreasury |-> Zero,
      AirdropsGiveaways |-> <<1, 10>>, InitiatorRewards |-> <<1, 10>>,
      TestnetDevelopmentPartners |-> Zero ]

\* the immediately released tranche first instead of last
EarlyRelease ==
    << [tokens_sold |-> Q(5), vesting_period |-> 0],
       [tokens_sold |-> Q(4), vesting_period |-> 1],
       [tokens_sold |-> Q(6), vesting_period |-> 2] >>

\* every tranche vests over time
AllVesting ==
    << [tokens_sold |-> Q(6), vesting_period |-> 2],
       [tokens_sold |-> Q(4), vesting_period |-> 1],
       [tokens_sold |-> Q(5), vesting_period |-> 3] >>

\* a large tranche released immediately
LargeRelease ==
    << [tokens_sold |-> Q(6), vesting_period |-> 2],
       [tokens_sold |-> Q(4), vesting_period |-> 1],
       [tokens_sold |-> Q(30), vesting_period |-> 0] >>

\* missions in the first month of the year only
QuietAfterJanuary == [m \in 2..12 |-> Zero]

\* allocation fractions that sum to 6/5
OverAllocated ==
    [ Builders |-> <<2, 5>>, DAOTreasury |-> <<2, 5>>,
      AirdropsGiveaways |-> <<1, 10>>, InitiatorRewards |-> <<1, 5>>,
      TestnetDevelopmentPartners |-> <<1, 10>> ]

\* cfg without the key k
WithoutKey(cfg, k) == [f \in DOMAIN cfg \ {k} |-> cfg[f]]

\* configurations that are malformed: a key is missing, the allocation
\* fractions exceed 1, a duration is negative
MalformedConfigs ==
    { WithoutKey([BaseConfig EXCEPT !.token_distribution = LiquidDistribution],
                 "testnet_distribution_period"),
      WithoutKey(BaseConfig, "pec"),
      [BaseConfig EXCEPT !.token_distribution = OverAllocated],
      [BaseConfig EXCEPT !.market_event_duration = -1] }

Configs ==
    {BaseConfig}
    \cup {[BaseConfig EXCEPT !.minimum_reward_per_mission = Q(m)] : m \in {4, 16, 32}}
    \cup {[BaseConfig EXCEPT !.project_cost = Q(2000)]}
    \cup {[BaseConfig EXCEPT !.mission_success_rate = r] : r \in {Zero, One}}
    \cup {[BaseConfig EXCEPT !.token_distribution = LiquidDistribution,
                             !.minimum_reward_per_mission = Q(m)] : m \in {1, 4}}
    \cup {[BaseConfig EXCEPT !.private_sales = p] : p \in {EarlyRelease, AllVesting}}
    \cup {[BaseConfig EXCEPT !.token_distribution = LiquidDistribution,
                             !.private_sales = LargeRelease]}
    \cup {[BaseConfig EXCEPT !.pec = Q(20),
                             !.dao_annual_consumption_rate = Zero,
                             !.token_distribution.TestnetDevelopmentPartners = Zero]}
    \cup {[BaseConfig EXCEPT !.pec = One, !.seasonality = QuietAfterJanuary]}
    \cup {[BaseConfig EXCEPT !.market_event_duration = d] : d \in {1, 3}}
    \cup {[BaseConfig EXCEPT !.builders_vesting_period = 0]}

(***************************************************************************)
(* State of one run of simulate.                                           *)
(***************************************************************************)
VARIABLES
    config,                          \* the config argument
    simulation_months,               \* the simulation_months argument
    month,                           \* loop variable (0 before the loop)
    pc,                              \* position in the loop body
    total_supply_current,
    circulating_supply,
    builders_tokens,
    dao_treasury,
    initiator_rewards_pool,
    testnet_development_tokens,
    private_sales_vesting_schedules,
    total_burnt_tokens,
    token_price,
    reward_per_mission,
    current_halving_index,
    market_event_counter,
    current_msi,
    builders_sold,
    num_missions,
    num_successful,
    tokens_staked,
    tokens_burnt,
    tokens_fee_distributed,
    tokens_fee_to_dao,
    net_token_demand,
    initiator_sold,
    fellowship_sold,
    initiator_rewards_this_month,
    price_change_percentage,
    results                          \* the list of monthly records

ctl == <<config, simulation_months, month>>
supply == <<total_supply_current, circulating_supply>>
pools == <<builders_tokens, dao_treasury, initiator_rewards_pool,
           testnet_development_tokens, private_sales_vesting_schedules>>
reward == <<reward_per_mission, current_halving_index>>
sentiment == <<market_event_counter, current_msi>>
monthly == <<num_missions, num_successful, tokens_staked, tokens_burnt,
             tokens_fee_distributed, tokens_fee_to_dao, net_token_demand,
             initiator_sold, fellowship_sold, initiator_rewards_this_month>>
vars == <<ctl, pc, supply, pools, total_burnt_tokens, token_price, reward,
          sentiment, builders_sold, monthly, price_change_percentage, results>>

(***************************************************************************)
(* Values simulate derives from config before the loop.                    *)
(***************************************************************************)
Allocation(cfg, pool) == Mul(cfg.total_supply, cfg.token_distribution[pool])

airdrops_giveaways_tokens == Allocation(config, "AirdropsGiveaways")

initial_initiator_rewards_pool == Allocation(config, "InitiatorRewards")

\* sum of tokens_sold over the tranches with (vesting_period > 0) = vesting
RECURSIVE TokensSold(_, _)
TokensSold(sales, vesting) ==
    IF sales = <<>> THEN Zero
    ELSE Add(IF (Head(sales).vesting_period > 0) = vesting
             THEN Head(sales).tokens_sold ELSE Zero,
             TokensSold(Tail(sales), vesting))

private_sale_vesting_tokens(cfg) == TokensSold(cfg.private_sales, TRUE)

\* mutant of InitialCirculatingSupply: lines 105-107 forgotten
InitialCirculatingSupplyNoRelease(cfg) ==
    Sub(cfg.total_supply,
        SumSeq(<< Allocation(cfg, "Builders"),
                  Allocation(cfg, "DAOTreasury"),
                  Allocation(cfg, "AirdropsGiveaways"),
                  private_sale_vesting_tokens(cfg),
                  Allocation(cfg, "InitiatorRewards"),
                  Allocation(cfg, "TestnetDevelopmentPartners") >>))

InitialCirculatingSupply(cfg) ==
    Add(Sub(cfg.total_supply,
            SumSeq(<< Allocation(cfg, "Builders"),
                      Allocation(cfg, "DAOTreasury"),
                      Allocation(cfg, "AirdropsGiveaways"),
                      private_sale_vesting_tokens(cfg),
                      Allocation(cfg, "InitiatorRewards"),
                      Allocation(cfg, "TestnetDevelopmentPartners") >>)),
        \* tranches with vesting_period = 0 are added in the loop of line 94
        TokensSold(cfg.private_sales, FALSE))

InitialSchedules(cfg) ==
    [i \in DOMAIN cfg.private_sales |->
        LET sale == cfg.private_sales[i]
        IN  [ remaining_tokens         |-> sale.tokens_sold,
              vesting_period           |-> sale.vesting_period,
              vesting_amount_per_month |->
                  IF sale.vesting_period > 0
                  THEN Div(sale.tokens_sold, Q(sale.vesting_period)) ELSE Zero,
              current_month            |-> 0 ]]

InitialTotalSupplyCurrent(cfg) ==
    Sub(cfg.total_supply,
        Add(Allocation(cfg, "AirdropsGiveaways"), cfg.private_sales[3].tokens_sold))

builders_vesting_per_month ==
    IF config.builders_vesting_period > 0
    THEN Div(Allocation(config, "Builders"), Q(config.builders_vesting_period))
    ELSE Zero

dao_consumption_monthly_rate == Div(config.dao_annual_consumption_rate, Q(12))

max_halvings ==
    FloorLog2(Div(initial_initiator_rewards_pool, config.minimum_reward_per_mission))

\* the keys read at lines 30-60
RequiredKeys ==
    { "total_supply", "initial_price", "project_cost", "protocol_fee_rate",
      "staking_rate", "mission_success_rate", "pec", "msi_bull", "msi_bear",
      "msi_normal", "bull_market_probability", "bear_market_probability",
      "market_event_duration", "random_fluctuation", "carrying_capacity",
      "growth_rate", "inflection_point", "seasonality", "token_distribution",
      "initiator_selling_percentage", "dao_annual_consumption_rate",
      "dao_consumption_start_month", "fellowship_selling_percentage",
      "builders_selling_percentage", "private_sales",
      "initiator_rewards_initial", "minimum_reward_per_mission",
      "testnet_distribution_period", "builders_lockup_period",
      "builders_vesting_period" }

\* lines 30-60: config[k] raises KeyError for a key that is absent
KeyError(cfg) == \E k \in RequiredKeys : k \notin DOMAIN cfg

\* simulate raised before the loop: no local survives and nothing is returned
Raised ==
    /\ pc = "raised"
    /\ total_supply_current = Zero
    /\ circulating_supply = Zero
    /\ builders_tokens = Zero
    /\ dao_treasury = Zero
    /\ initiator_rewards_pool = Zero
    /\ testnet_development_tokens = Zero
    /\ private_sales_vesting_schedules = <<>>
    /\ total_burnt_tokens = Zero
    /\ token_price = Zero
    /\ reward_per_mission = Zero
    /\ current_halving_index = 0
    /\ market_event_counter = 0
    /\ current_msi = Zero

\* lines 62-141: the state before the loop
Constructed ==
    /\ pc = "loop"
    /\ total_supply_current = InitialTotalSupplyCurrent(config)
    /\ circulating_supply = InitialCirculatingSupply(config)
    /\ builders_tokens = Allocation(config, "Builders")
    /\ dao_treasury = Allocation(config, "DAOTreasury")
    /\ initiator_rewards_pool = Allocation(config, "InitiatorRewards")
    /\ testnet_development_tokens = Allocation(config, "TestnetDevelopmentPartners")
    /\ private_sales_vesting_schedules = InitialSchedules(config)
    /\ total_burnt_tokens = Zero
    /\ token_price = config.initial_price
    /\ reward_per_mission = config.initiator_rewards_initial.monthly
    /\ current_halving_index = 0
    /\ market_event_counter = 0
    /\ current_msi = config.msi_normal

\* simulate called with a configuration of the set cfgs
Start(cfgs) ==
    /\ config \in cfgs
    /\ simulation_months \in 1..MaxMonths
    /\ month = 0
    /\ IF KeyError(config) THEN Raised ELSE Constructed
    /\ builders_sold = Zero
    /\ num_missions = 0
    /\ num_successful = 0
    /\ tokens_staked = Zero
    /\ tokens_burnt = Zero
    /\ tokens_fee_distributed = Zero
    /\ tokens_fee_to_dao = Zero
    /\ net_token_demand = Zero
    /\ initiator_sold = Zero
    /\ fellowship_sold = Zero
    /\ initiator_rewards_this_month = Zero
    /\ price_change_percentage = Zero
    /\ results = <<>>

Init == Start(Configs)

InitMalformed == Start(MalformedConfigs)

(***************************************************************************)
(* The loop body, block by block.                                          *)
(***************************************************************************)
\* for month in range(1, simulation_months + 1): next iteration
NextMonth ==
    /\ pc = "loop"
    /\ month < simulation_months
    /\ month' = month + 1
    /\ pc' = "sentiment"
    /\ UNCHANGED <<config, simulation_months, supply, pools, total_burnt_tokens,
                   token_price, reward, sentiment, builders_sold, monthly,
                   price_change_percentage, results>>

\* the range is exhausted: simulate returns the records
Return ==
    /\ pc = "loop"
    /\ month >= simulation_months
    /\ pc' = "done"
    /\ UNCHANGED <<ctl, supply, pools, total_burnt_tokens, token_price, reward,
                   sentiment, builders_sold, monthly, price_change_percentage,
                   results>>

\* the values random.random() is sampled at: k / DrawGrid in [0, 1)
RandomDraws == {Norm(k, DrawGrid) : k \in 0..(DrawGrid - 1)}

\* mutant of EventHold: the selection month not counted in the duration
EventHoldFull == config.market_event_duration

\* lines 153 and 156: the months a selected regime is held after its selection
EventHold == config.market_event_duration - 1

\* lines 145-158
MarketSentiment ==
    /\ pc = "sentiment"
    /\ IF market_event_counter > 0
       THEN /\ market_event_counter' = market_event_counter - 1
            /\ UNCHANGED current_msi
       ELSE \E rand_event \in RandomDraws :
              IF Lt(rand_event, config.bull_market_probability)
              THEN /\ current_msi' = config.msi_bull
                   /\ market_event_counter' = EventHold
              ELSE IF Lt(rand_event, Add(config.bull_market_probability,
                                         config.bear_market_probability))
              THEN /\ current_msi' = config.msi_bear
                   /\ market_event_counter' = EventHold
              ELSE /\ current_msi' = config.msi_normal
                   /\ UNCHANGED market_event_counter
    /\ pc' = "builders"
    /\ UNCHANGED <<ctl, supply, pools, total_burnt_tokens, token_price, reward,
                   builders_sold, monthly, price_change_percentage, results>>

\* lines 160-170
BuildersVesting ==
    /\ pc = "builders"
    /\ IF month > config.builders_lockup_period /\ Lt(Zero, builders_tokens)
       THEN LET vesting_amount == Min(builders_vesting_per_month, builders_tokens)
            IN  /\ builders_tokens' = Sub(builders_tokens, vesting_amount)
                /\ circulating_supply' = Add(circulating_supply, vesting_amount)
                /\ builders_sold' = Mul(vesting_amount, config.builders_selling_percentage)
       ELSE /\ builders_sold' = Zero
            /\ UNCHANGED <<builders_tokens, circulating_supply>>
    /\ pc' = "private"
    /\ UNCHANGED <<ctl, total_supply_current, dao_treasury, initiator_rewards_pool,
                   testnet_development_tokens, private_sales_vesting_schedules,
                   total_burnt_tokens, token_price, reward, sentiment, monthly,
                   price_change_percentage, results>>

\* whether the schedule enters the body of the if of line 174
Vests(schedule) ==
    schedule.vesting_period > 0 /\ Lt(Zero, schedule.remaining_tokens)

\* mutant of Released: line 176 written with < in place of <=
ReleasedBeforeLast(schedule) ==
    IF Vests(schedule) /\ schedule.current_month + 1 < schedule.vesting_period
    THEN schedule.vesting_amount_per_month
    ELSE Zero

\* what one schedule adds to circulating supply in one pass of the loop of line 173
Released(schedule) ==
    IF Vests(schedule) /\ schedule.current_month + 1 <= schedule.vesting_period
    THEN schedule.vesting_amount_per_month
    ELSE Zero

\* one schedule after one pass of the loop of line 173
Advance(schedule) ==
    IF Vests(schedule)
    THEN [schedule EXCEPT
            !.current_month = @ + 1,
            !.remaining_tokens = Sub(@, Released(schedule))]
    ELSE schedule

\* lines 172-180
PrivateSalesVesting ==
    /\ pc = "private"
    /\ private_sales_vesting_schedules' =
          [i \in DOMAIN private_sales_vesting_schedules |->
              Advance(private_sales_vesting_schedules[i])]
    /\ circulating_supply' =
          Add(circulating_supply,
              SumSeq([i \in DOMAIN private_sales_vesting_schedules |->
                         Released(private_sales_vesting_schedules[i])]))
    /\ pc' = "testnet"
    /\ UNCHANGED <<ctl, total_supply_current, builders_tokens, dao_treasury,
                   initiator_rewards_pool, testnet_development_tokens,
                   total_burnt_tokens, token_price, reward, sentiment,
                   builders_sold, monthly, price_change_percentage, results>>

\* lines 182-191
DistributeTestnet ==
    /\ pc = "testnet"
    /\ IF Lt(Zero, testnet_development_tokens)
       THEN LET testnet_vesting_per_month ==
                    Div(testnet_development_tokens,
                        Q(config.testnet_distribution_period * 12))
                vesting_amount ==
                    Min(testnet_vesting_per_month, testnet_development_tokens)
            IN  /\ testnet_development_tokens' =
                      Sub(testnet_development_tokens, vesting_amount)
                /\ circulating_supply' = Add(circulating_supply, vesting_amount)
       ELSE UNCHANGED <<testnet_development_tokens, circulating_supply>>
    /\ pc' = "dao"
    /\ UNCHANGED <<ctl, total_supply_current, builders_tokens, dao_treasury,
                   initiator_rewards_pool, private_sales_vesting_schedules,
                   total_burnt_tokens, token_price, reward, sentiment,
                   builders_sold, monthly, price_change_percentage, results>>

\* lines 193-198
DaoConsumption ==
    /\ pc = "dao"
    /\ IF month >= config.dao_consumption_start_month /\ Lt(Zero, dao_treasury)
       THEN LET dao_consumed == Mul(dao_treasury, dao_consumption_monthly_rate)
            IN  /\ dao_treasury' = Sub(dao_treasury, dao_consumed)
                /\ circulating_supply' = Add(circulating_supply, dao_consumed)
       ELSE UNCHANGED <<dao_treasury, circulating_supply>>
    /\ pc' = "clamp"
    /\ UNCHANGED <<ctl, total_supply_current, builders_tokens,
                   initiator_rewards_pool, testnet_development_tokens,
                   private_sales_vesting_schedules, total_burnt_tokens,
                   token_price, reward, sentiment, builders_sold, monthly,
                   price_change_percentage, results>>

\* lines 200-202
ClampCirculatingSupply ==
    /\ pc = "clamp"
    /\ circulating_supply' =
          IF Lt(total_supply_current, circulating_supply)
          THEN total_supply_current ELSE circulating_supply
    /\ pc' = "generate"
    /\ UNCHANGED <<ctl, total_supply_current, pools, total_burnt_tokens,
                   token_price, reward, sentiment, builders_sold, monthly,
                   price_change_percentage, results>>

\* seasonality.get(str(month_of_year), 1.0)
SeasonalFactor(month_of_year) ==
    IF month_of_year \in DOMAIN config.seasonality
    THEN config.seasonality[month_of_year] ELSE One

\* the values random.uniform(-f, f) is sampled at: -f + 2 f k / DrawGrid
UniformDraws(f) ==
    {Add(Neg(f), Mul(Mul(Q(2), f), Norm(k, DrawGrid))) : k \in 0..DrawGrid}

\* lines 204-218: the mission count for a month and a fluctuation draw
MissionCount(m, fluctuation) ==
    LET exponent == Mul(config.growth_rate, Sub(Q(m), config.inflection_point))
        baseline_missions ==
            Div(config.carrying_capacity, Add(One, Exp(Neg(exponent))))
        month_of_year == ((m - 1) % 12) + 1
        adjusted_missions == Mul(baseline_missions, SeasonalFactor(month_of_year))
        final_missions == Mul(adjusted_missions, Add(One, fluctuation))
    IN  Trunc(final_missions)

\* lines 204-227
GenerateMissions ==
    /\ pc = "generate"
    /\ \E fluctuation \in UniformDraws(config.random_fluctuation) :
          num_missions' = MissionCount(month, fluctuation)
    /\ num_successful' = 0
    /\ tokens_staked' = Zero
    /\ tokens_burnt' = Zero
    /\ tokens_fee_distributed' = Zero
    /\ tokens_fee_to_dao' = Zero
    /\ net_token_demand' = Zero
    /\ initiator_sold' = Zero
    /\ fellowship_sold' = Zero
    /\ initiator_rewards_this_month' = Zero
    /\ pc' = "missions"
    /\ UNCHANGED <<ctl, supply, pools, total_burnt_tokens, token_price, reward,
                   sentiment, builders_sold, price_change_percentage, results>>

\* the literal 1e-18 of lines 240-241.  Every value of the model is a rational
\* with a denominator below 2^31, so "x < 1e-18" is "x <= 0" on them, and the
\* floor itself is represented by the smallest power of ten that fits.
FeeFloor == <<1, 1000000000>>

\* lines 235-241
ProtocolFeePoln ==
    LET protocol_fee_usd == Mul(config.project_cost, config.protocol_fee_rate)
        protocol_fee_poln == Div(protocol_fee_usd, token_price)
    IN  IF Le(protocol_fee_poln, Zero) THEN FeeFloor ELSE protocol_fee_poln

\* line 232
NumSuccessful(n) == Trunc(Mul(Q(n), config.mission_success_rate))

\* mutant of NumFailed: every mission counted as failed
NumFailedAll(n, successful) == n

\* line 233
NumFailed(n, successful) == n - successful

\* mutant of InitiatorPayout: the adjustment of line 277 forgotten
InitiatorPayoutUnclamped(pool, rewards) == rewards

\* lines 270-278: the payout of the month, given the pool before it
InitiatorPayout(pool, rewards) ==
    IF Lt(Sub(pool, rewards), Zero) THEN Add(rewards, Sub(pool, rewards)) ELSE rewards

\* lines 273-278: the pool after the payout
PoolAfterPayout(pool, rewards) ==
    IF Lt(Sub(pool, rewards), Zero) THEN Zero ELSE Sub(pool, rewards)

\* mutant of SupplyAfterBurn: the burn not taken from the total supply
SupplyAfterBurnKept(total, burnt) == total

\* line 252: total_supply_current -= tokens_burnt
SupplyAfterBurn(total, burnt) == Sub(total, burnt)

\* mutant of TreasuryAfterFee: the fee of failed missions not credited
TreasuryAfterFeeDropped(treasury, fee_to_dao) == treasury

\* line 261: dao_treasury += tokens_fee_to_dao
TreasuryAfterFee(treasury, fee_to_dao) == Add(treasury, fee_to_dao)

\* lines 230-293, for num_missions > 0
ProcessMissions ==
    /\ pc = "missions"
    /\ num_missions > 0
    /\ LET successful == NumSuccessful(num_missions)
           num_failed == NumFailed(num_missions, successful)
           protocol_fee_poln == ProtocolFeePoln
           staking_amount == Mul(protocol_fee_poln, config.staking_rate)
           burnt == Mul(staking_amount, Q(num_failed))
           fee_distributed == Mul(protocol_fee_poln, Q(successful))
           fee_to_dao == Mul(protocol_fee_poln, Q(num_failed))
           fellowship_tokens == fee_distributed
           f_sold == Mul(fellowship_tokens, config.fellowship_selling_percentage)
           rewards == Mul(reward_per_mission, Q(successful))
           payout == InitiatorPayout(initiator_rewards_pool, rewards)
           i_sold == Mul(payout, config.initiator_selling_percentage)
       IN  /\ num_successful' = successful
           /\ tokens_staked' = Mul(staking_amount, Q(num_missions))
           /\ tokens_burnt' = burnt
           /\ total_burnt_tokens' = Add(total_burnt_tokens, burnt)
           /\ total_supply_current' = SupplyAfterBurn(total_supply_current, burnt)
           /\ tokens_fee_distributed' = fee_distributed
           /\ tokens_fee_to_dao' = fee_to_dao
           /\ dao_treasury' = TreasuryAfterFee(dao_treasury, fee_to_dao)
           /\ fellowship_sold' = f_sold
           /\ initiator_rewards_pool' = PoolAfterPayout(initiator_rewards_pool, rewards)
           /\ initiator_rewards_this_month' = payout
           /\ circulating_supply' =
                 Add(Add(Sub(circulating_supply, burnt), fellowship_tokens), payout)
           /\ initiator_sold' = i_sold
           /\ net_token_demand' =
                 Sub(Sub(Sub(Sub(Mul(protocol_fee_poln, Q(num_missions)), burnt),
                             i_sold), f_sold), builders_sold)
    /\ pc' = "halving"
    /\ UNCHANGED <<ctl, builders_tokens, testnet_development_tokens,
                   private_sales_vesting_schedules, token_price, reward,
                   sentiment, builders_sold, num_missions,
                   price_change_percentage, results>>

\* line 230, for num_missions = 0: the block is skipped
SkipMissions ==
    /\ pc = "missions"
    /\ ~(num_missions > 0)
    /\ pc' = "price"
    /\ UNCHANGED <<ctl, supply, pools, total_burnt_tokens, token_price, reward,
                   sentiment, builders_sold, monthly, price_change_percentage,
                   results>>

\* mutant of HalvingDue: the test against max_halvings forgotten
HalvingDueUnbounded ==
    LET halving_threshold ==
            Div(initial_initiator_rewards_pool, Q(Pow2(current_halving_index + 1)))
    IN  /\ Le(initiator_rewards_pool, halving_threshold)
        /\ Lt(config.minimum_reward_per_mission, reward_per_mission)

\* lines 296-302: the condition of the halving
HalvingDue ==
    LET halving_threshold ==
            Div(initial_initiator_rewards_pool, Q(Pow2(current_halving_index + 1)))
    IN  /\ current_halving_index < max_halvings
        /\ Le(initiator_rewards_pool, halving_threshold)
        /\ Lt(config.minimum_reward_per_mission, reward_per_mission)

\* mutant of HalvedReward: the floor of lines 307-308 forgotten
HalvedRewardNoFloor(r) == Div(r, Q(2))

\* lines 304-308: the reward after a halving
HalvedReward(r) ==
    IF Lt(Div(r, Q(2)), config.minimum_reward_per_mission)
    THEN config.minimum_reward_per_mission ELSE Div(r, Q(2))

\* lines 295-308
CheckHalving ==
    /\ pc = "halving"
    /\ IF HalvingDue
       THEN /\ reward_per_mission' = HalvedReward(reward_per_mission)
            /\ current_halving_index' = current_halving_index + 1
       ELSE UNCHANGED reward
    /\ pc' = "price"
    /\ UNCHANGED <<ctl, supply, pools, total_burnt_tokens, token_price,
                   sentiment, builders_sold, monthly, price_change_percentage,
                   results>>

\* mutant of CapPriceChange: a cap of 0.3
CapPriceChangeWide(x) == Max(Min(x, <<3, 10>>), <<-3, 10>>)

\* lines 315-316: max(min(x, 0.2), -0.2)
CapPriceChange(x) == Max(Min(x, <<1, 5>>), <<-1, 5>>)

\* lines 310-321
AdjustTokenPrice ==
    /\ pc = "price"
    /\ IF Lt(Zero, circulating_supply) /\ net_token_demand # Zero
       THEN LET demand_supply_ratio == Div(net_token_demand, circulating_supply)
                change == CapPriceChange(
                    Mul(Mul(config.pec, demand_supply_ratio), current_msi))
            IN  /\ price_change_percentage' = change
                /\ token_price' = Mul(token_price, Add(One, change))
       ELSE /\ price_change_percentage' = Zero
            /\ UNCHANGED token_price
    /\ pc' = "record"
    /\ UNCHANGED <<ctl, supply, pools, total_burnt_tokens, reward, sentiment,
                   builders_sold, monthly, results>>

\* lines 323-343: the record of the month
MonthlyRecord ==
    [ Month                  |-> month,
      CirculatingSupply      |-> circulating_supply,
      TotalSupply            |-> total_supply_current,
      TokenPrice             |-> token_price,
      TokensStaked           |-> tokens_staked,
      TokensBurnt            |-> tokens_burnt,
      TokensFeeDistributed   |-> tokens_fee_distributed,
      TokensFeeToDAO         |-> tokens_fee_to_dao,
      DAOTreasury            |-> dao_treasury,
      TotalBurntTokens       |-> total_burnt_tokens,
      MarketSentimentIndex   |-> current_msi,
      NetTokenDemand         |-> net_token_demand,
      Missions               |-> num_missions,
      InitiatorRewardsPool   |-> initiator_rewards_pool,
      RewardPerMission       |-> reward_per_mission,
      HalvingIndex           |-> current_halving_index,
      BuildersSold           |-> builders_sold,
      FellowshipSold         |-> fellowship_sold ]

\* lines 323-343
StoreMonthlyResults ==
    /\ pc = "record"
    /\ results' = Append(results, MonthlyRecord)
    /\ pc' = "loop"
    /\ UNCHANGED <<ctl, supply, pools, total_burnt_tokens, token_price, reward,
                   sentiment, builders_sold, monthly, price_change_percentage>>

Next ==
    \/ NextMonth
    \/ Return
    \/ MarketSentiment
    \/ BuildersVesting
    \/ PrivateSalesVesting
    \/ DistributeTestnet
    \/ DaoConsumption
    \/ ClampCirculatingSupply
    \/ GenerateMissions
    \/ ProcessMissions
    \/ SkipMissions
    \/ CheckHalving
    \/ AdjustTokenPrice
    \/ StoreMonthlyResults

Spec == Init /\ [][Next]_vars

\* simulate called with a malformed configuration
SpecMalformed == InitMalformed /\ [][Next]_vars

(***************************************************************************)
(* Properties.                                                             *)
(***************************************************************************)
Months == DOMAIN results

\* the token price recorded for the month before month i
PreviousPrice(i) == IF i = 1 THEN config.initial_price ELSE results[i - 1].TokenPrice

\* total burnt tokens recorded for the month before month i
PreviousBurnt(i) == IF i = 1 THEN Zero ELSE results[i - 1].TotalBurntTokens

\* C1: in every monthly record the circulating supply does not exceed the
\* total supply.
C1_CirculatingWithinTotal ==
    \A i \in Months : Le(results[i].CirculatingSupply, results[i].TotalSupply)

\* C2: in every monthly record the circulating supply and the total supply
\* are both >= 0.
C2_SuppliesNonNegative ==
    \A i \in Months :
        /\ Le(Zero, results[i].CirculatingSupply)
        /\ Le(Zero, results[i].TotalSupply)

\* the left-hand side of the conservation equation of C3
AllocatedAndCirculating ==
    SumSeq(<< circulating_supply,
              builders_tokens,
              dao_treasury,
              airdrops_giveaways_tokens,
              SumSeq([i \in DOMAIN private_sales_vesting_schedules |->
                         private_sales_vesting_schedules[i].remaining_tokens]),
              initiator_rewards_pool,
              testnet_development_tokens >>)

\* C3: before the first iteration, circulating supply plus every pool plus
\* the remaining tokens of every vesting schedule equals total_supply.
C3_InitialConservation ==
    (month = 0 /\ pc = "loop") => AllocatedAndCirculating = config.total_supply

\* C4: the price of every month differs from the price of the month before
\* (initial_price for month 1) by at most 20 percent.
C4_PriceChangeCapped ==
    \A i \in Months :
        LET change == Sub(Div(results[i].TokenPrice, PreviousPrice(i)), One)
        IN  Le(<<-1, 5>>, change) /\ Le(change, <<1, 5>>)

\* C4 witness: a recorded month whose price moved by the full cap, upward.
C4_Witness ==
    \E i \in Months : results[i].TokenPrice = Mul(PreviousPrice(i), <<6, 5>>)

\* C5: in every monthly record reward_per_mission >= minimum_reward_per_mission.
C5_RewardAtLeastMinimum ==
    \A i \in Months :
        Le(config.minimum_reward_per_mission, results[i].RewardPerMission)

\* the initiator rewards pool at the start of the current month: the pool
\* only changes in the mission block, so it is the one last recorded
PoolBeforeMonth ==
    IF results = <<>> THEN initial_initiator_rewards_pool
    ELSE results[Len(results)].InitiatorRewardsPool

\* C6: the depleting pools never go below 0, and a payout larger than the
\* initiator pool empties the pool and adds to circulating supply exactly what
\* the pool held.
C6_PoolsNonNegative ==
    /\ Le(Zero, builders_tokens)
    /\ Le(Zero, initiator_rewards_pool)
    /\ Le(Zero, testnet_development_tokens)
    /\ pc = "halving" =>
          LET before == PoolBeforeMonth
              due == Mul(reward_per_mission, Q(num_successful))
          IN  /\ Le(initiator_rewards_this_month, due)
              /\ Lt(before, due) =>
                    /\ initiator_rewards_pool = Zero
                    /\ initiator_rewards_this_month = before
              /\ ~Lt(before, due) =>
                    /\ initiator_rewards_this_month = due
                    /\ initiator_rewards_pool = Sub(before, due)

\* C6 witness: a payout that was cut down to the balance of the pool.
C6_Witness ==
    /\ pc = "halving"
    /\ initiator_rewards_pool = Zero
    /\ Lt(Zero, initiator_rewards_this_month)
    /\ Lt(initiator_rewards_this_month, Mul(reward_per_mission, Q(num_successful)))

\* C7: after the k-th halving (k >= 1) the reward per mission is
\* max(initial_reward / 2^k, minimum_reward_per_mission).
C7_HalvedReward ==
    current_halving_index >= 1 =>
        reward_per_mission =
            Max(Div(config.initiator_rewards_initial.monthly,
                    Q(Pow2(current_halving_index))),
                config.minimum_reward_per_mission)

\* C7 witness: a second halving that was floored at the minimum.
C7_Witness ==
    /\ current_halving_index = 2
    /\ reward_per_mission = config.minimum_reward_per_mission
    /\ Lt(Div(config.initiator_rewards_initial.monthly, Q(4)),
          config.minimum_reward_per_mission)

\* the halving index never decreases from one record to the next, nor from
\* the last record to the current state
HalvingIndexMonotone ==
    /\ \A i \in Months : i > 1 => results[i - 1].HalvingIndex <= results[i].HalvingIndex
    /\ results # <<>> => results[Len(results)].HalvingIndex <= current_halving_index

\* C8 as stated: the halving index never exceeds max_halvings and never
\* decreases.
C8_HalvingsWithinMax ==
    /\ current_halving_index <= max_halvings
    /\ HalvingIndexMonotone

\* C8 amended: the halving index never exceeds max(max_halvings, 0) and never
\* decreases.
C8_HalvingsWithinMaxOrZero ==
    /\ current_halving_index <= (IF max_halvings < 0 THEN 0 ELSE max_halvings)
    /\ HalvingIndexMonotone

\* C8 witness: max_halvings halvings were made and a further one is refused
\* although the pool is below the next threshold and the reward above the
\* minimum.
C8_Witness ==
    /\ pc = "halving"
    /\ current_halving_index = max_halvings
    /\ current_halving_index >= 1
    /\ Le(initiator_rewards_pool,
          Div(initial_initiator_rewards_pool, Q(Pow2(current_halving_index + 1))))
    /\ Lt(config.minimum_reward_per_mission, reward_per_mission)

\* C9: total_burnt_tokens never decreases from one month to the next, and is
\* unchanged in a month with no mission or no failed mission.
C9_BurntNonDecreasing ==
    \A i \in Months :
        LET n == results[i].Missions
            failed == n - Trunc(Mul(Q(n), config.mission_success_rate))
        IN  /\ Le(PreviousBurnt(i), results[i].TotalBurntTokens)
            /\ (n = 0 \/ failed = 0) => results[i].TotalBurntTokens = PreviousBurnt(i)

\* C9 witness: a month that burnt tokens, then a month without missions that
\* left the total unchanged, then a month that burnt more.
C9_Witness ==
    \E i \in Months :
        /\ i > 1
        /\ i + 1 \in Months
        /\ Lt(Zero, PreviousBurnt(i))
        /\ results[i].Missions = 0
        /\ results[i].TotalBurntTokens = PreviousBurnt(i)
        /\ Lt(results[i].TotalBurntTokens, results[i + 1].TotalBurntTokens)

\* total of the tranches released at initialization (vesting_period = 0)
ImmediateTokens == TokensSold(config.private_sales, FALSE)

\* Circulating supply as the ledger gives it when the tranches with
\* vesting_period 0 are left out: total supply less the airdrops, less what
\* the pools and the vesting schedules still hold, less the burn and plus the
\* fees of the current month.  In month 1 a run of the same configuration
\* without those tranches' tokens makes the same releases, burn, fees and
\* payout (the price is initial_price in both), so this is its circulating
\* supply as long as line 202 does not apply.
LedgerWithoutImmediate ==
    Add(Sub(Sub(Sub(config.total_supply, airdrops_giveaways_tokens),
                SumSeq(<< builders_tokens,
                          Sub(dao_treasury, tokens_fee_to_dao),
                          initiator_rewards_pool,
                          testnet_development_tokens,
                          SumSeq([i \in DOMAIN private_sales_vesting_schedules |->
                                     IF private_sales_vesting_schedules[i].vesting_period > 0
                                     THEN private_sales_vesting_schedules[i].remaining_tokens
                                     ELSE Zero]) >>)),
            tokens_burnt),
        tokens_fee_distributed)

\* a schedule with vesting_period 0 is never entered by the loop of line 173
ImmediateSchedulesInert ==
    \A i \in DOMAIN private_sales_vesting_schedules :
        LET schedule == private_sales_vesting_schedules[i]
        IN  schedule.vesting_period = 0 =>
                /\ schedule.current_month = 0
                /\ schedule.remaining_tokens = config.private_sales[i].tokens_sold
                /\ schedule.vesting_amount_per_month = Zero

C11_NoBurnAtFullSuccess ==
    config.mission_success_rate = One =>
        \A i \in Months :
            /\ results[i].TokensBurnt = Zero
            /\ results[i].TotalBurntTokens = Zero
            /\ results[i].TotalSupply = InitialTotalSupplyCurrent(config)

\* C11 witness: two recorded months with a different, positive number of
\* missions under mission_success_rate = 1.0.
C11_Witness ==
    /\ config.mission_success_rate = One
    /\ \E i, j \in Months :
          /\ results[i].Missions > 0
          /\ results[j].Missions > results[i].Missions
          /\ results[j].TokensStaked # Zero

\* the protocol fee per mission of month i, from the price the month starts with
FeeOfMonth(i) ==
    Max(FeeFloor,
        Div(Mul(config.project_cost, config.protocol_fee_rate), PreviousPrice(i)))

\* the DAO treasury recorded for the month before month i
PreviousTreasury(i) ==
    IF i = 1 THEN Allocation(config, "DAOTreasury") ELSE results[i - 1].DAOTreasury

\* the DAO treasury of month i once the month's consumption is taken
TreasuryAfterConsumption(i) ==
    IF i >= config.dao_consumption_start_month /\ Lt(Zero, PreviousTreasury(i))
    THEN Sub(PreviousTreasury(i),
             Mul(PreviousTreasury(i), Div(config.dao_annual_consumption_rate, Q(12))))
    ELSE PreviousTreasury(i)

\* C12: with mission_success_rate = 0.0 every monthly record has
\* tokens_fee_distributed = 0, records the whole protocol fee of the month
\* (fee per mission x mission count) as tokens_fee_to_dao, and its DAO
\* treasury is the treasury after consumption plus that fee.
C12_WholeFeeToDaoAtZeroSuccess ==
    config.mission_success_rate = Zero =>
        \A i \in Months :
            /\ results[i].TokensFeeDistributed = Zero
            /\ results[i].TokensFeeToDAO =
                  Mul(FeeOfMonth(i), Q(results[i].Missions))
            /\ results[i].DAOTreasury =
                  Add(TreasuryAfterConsumption(i), results[i].TokensFeeToDAO)

\* C12 witness: under mission_success_rate = 0.0, a recorded month with
\* missions whose fee went to the DAO, after the consumption has started.
C12_Witness ==
    /\ config.mission_success_rate = Zero
    /\ \E i \in Months :
          /\ i >= config.dao_consumption_start_month
          /\ results[i].Missions > 0
          /\ Lt(Zero, results[i].TokensFeeToDAO)
\* C14: a malformed configuration (a missing key, allocation fractions that
\* sum to more than 1, a negative duration) produces no monthly record.
C14_MalformedYieldsNoRecord ==
    config \in MalformedConfigs => results = <<>>

\* the recorded sentiment multipliers of the Bull and Bear regimes
EventMultipliers == {config.msi_bull, config.msi_bear}

\* the first month of the run of equal sentiment multipliers that ends at month n
RunStart(n) ==
    CHOOSE i \in 1..n :
        /\ \A j \in i..n : results[j].MarketSentimentIndex = results[n].MarketSentimentIndex
        /\ i > 1 => results[i - 1].MarketSentimentIndex # results[n].MarketSentimentIndex

\* C15: a selected Bull or Bear regime is recorded for exactly
\* market_event_duration consecutive months, the month of its selection
\* included, before the next draw: the duration counter stays within
\* 0..duration-1, after k <= duration months of the regime it is
\* duration - k, it is 0 in a Normal month, and a regime that was replaced
\* lasted a multiple of the duration.
C15_RegimeHeldForDuration ==
    LET n == Len(results)
        d == config.market_event_duration
        Regime(i) == results[i].MarketSentimentIndex
    IN  /\ market_event_counter \in 0..(d - 1)
        /\ (pc \in {"loop", "done"} /\ n >= 1) =>
              IF Regime(n) \in EventMultipliers
              THEN (n - RunStart(n)) + 1 <= d =>
                      market_event_counter = d - ((n - RunStart(n)) + 1)
              ELSE market_event_counter = 0
        /\ \A i \in 1..(n - 1) :
              (Regime(i) \in EventMultipliers /\ Regime(i + 1) # Regime(i)) =>
                 ((i - RunStart(i)) + 1) % d = 0

\* C15 witness: with a duration of 3 months a regime selected in month 1 is
\* still recorded in month 3, and with a duration of 2 months a regime
\* selected in month 1 has been replaced in month 3.
C15_Witness ==
    /\ Len(results) = 3
    /\ results[1].MarketSentimentIndex \in EventMultipliers
    /\ results[2].MarketSentimentIndex = results[1].MarketSentimentIndex
    /\ \/ /\ config.market_event_duration = 3
          /\ results[3].MarketSentimentIndex = results[1].MarketSentimentIndex
          /\ market_event_counter = 0
       \/ /\ config.market_event_duration = 2
          /\ results[3].MarketSentimentIndex # results[1].MarketSentimentIndex

\* C16: the testnet pool is released linearly: after every month m it is the
\* initial pool less m times initial pool / (testnet_distribution_period x 12),
\* and 0 from month testnet_distribution_period x 12 on.
C16_TestnetLinearRelease ==
    LET initial == Allocation(config, "TestnetDevelopmentPartners")
        per_month == Div(initial, Q(config.testnet_distribution_period * 12))
    IN  pc \in {"loop", "done"} =>
           testnet_development_tokens = Max(Zero, Sub(initial, Mul(Q(month), per_month)))

\* C17: in every month in which builders' tokens vest (builders_sold > 0) the
\* net token demand of the month is the fee demand less the burn, the
\* initiator and fellowship sales and builders_sold, also with zero missions.
C17_DemandReducedByBuildersSold ==
    (pc = "record" /\ Lt(Zero, builders_sold)) =>
        net_token_demand =
            Sub(Sub(Sub(Sub(Add(tokens_fee_distributed, tokens_fee_to_dao),
                            tokens_burnt),
                        initiator_sold),
                    fellowship_sold),
                builders_sold)
\* what the tranche of tokens_sold T and vesting period P > 0 still holds
\* after month m under a linear release of T / P in each of months 1..P
LinearRemaining(T, P, m) ==
    Sub(T, Mul(Q(IF m <= P THEN m ELSE P), Div(T, Q(P))))

\* what the tranches with a vesting period P > 0 release together in month m
LinearRelease(m) ==
    SumSeq([i \in DOMAIN config.private_sales |->
               IF config.private_sales[i].vesting_period > 0
                  /\ m <= config.private_sales[i].vesting_period
               THEN Div(config.private_sales[i].tokens_sold,
                        Q(config.private_sales[i].vesting_period))
               ELSE Zero])

\* C18: the vesting step of month m leaves every tranche with a vesting
\* period P > 0 at tokens_sold less min(m, P) times tokens_sold / P, never
\* below 0 and 0 from month P on, adds to the circulating supply tokens_sold / P
\* for each tranche with m <= P and nothing else, and leaves a tranche that
\* is past its period (m > P) or empty untouched.
C18_TrancheLinearRelease ==
    [][pc = "private" =>
         /\ \A i \in DOMAIN config.private_sales :
               LET T == config.private_sales[i].tokens_sold
                   P == config.private_sales[i].vesting_period
                   before == private_sales_vesting_schedules[i]
                   after == private_sales_vesting_schedules'[i]
               IN  P > 0 =>
                     /\ after.remaining_tokens = LinearRemaining(T, P, month)
                     /\ Le(Zero, after.remaining_tokens)
                     /\ month >= P => after.remaining_tokens = Zero
                     /\ (month > P \/ before.remaining_tokens = Zero) => after = before
         /\ circulating_supply' = Add(circulating_supply, LinearRelease(month))
      ]_vars

\* C18 witness: month 3 has passed its vesting step; the tranche of period 2
\* made its last release in month 2, the tranche of period 1 in month 1, and
\* both are empty.
C18_Witness ==
    /\ month = 3
    /\ pc = "testnet"
    /\ Len(config.private_sales) >= 2
    /\ config.private_sales[1].vesting_period = 2
    /\ config.private_sales[2].vesting_period = 1
    /\ private_sales_vesting_schedules[1].remaining_tokens = Zero
    /\ private_sales_vesting_schedules[1].current_month = 2
    /\ private_sales_vesting_schedules[2].remaining_tokens = Zero
    /\ private_sales_vesting_schedules[2].current_month = 1
\* C19: builders' tokens are untouched in every month <= builders_lockup_period
\* (pool unchanged, builders_sold = 0), and the pool is 0 once lockup + vesting
\* months have passed, also with builders_vesting_period = 0.
C19_BuildersVestAfterLockup ==
    pc \in {"loop", "done"} =>
        /\ (1 <= month /\ month <= config.builders_lockup_period) =>
              /\ builders_tokens = Allocation(config, "Builders")
              /\ builders_sold = Zero
        /\ (month > config.builders_lockup_period
            /\ month >= config.builders_lockup_period + config.builders_vesting_period) =>
              builders_tokens = Zero

\* C20: the burn of a month leaves total supply, total burnt tokens and
\* circulating supply changed by the same amount tokens_burnt (circulating
\* supply then gains the month's distributed fee and reward payout), nothing
\* else changes total supply or total burnt tokens, and in every record
\* total supply + total burnt tokens is the total supply of month 0.
C20_BurnConservesLedger ==
    [][/\ pc = "missions" =>
            /\ total_supply_current' = Sub(total_supply_current, tokens_burnt')
            /\ total_burnt_tokens' = Add(total_burnt_tokens, tokens_burnt')
            /\ circulating_supply' =
                  Add(Add(Sub(circulating_supply, tokens_burnt'),
                          tokens_fee_distributed'),
                      initiator_rewards_this_month')
       /\ pc # "missions" =>
            /\ total_supply_current' = total_supply_current
            /\ total_burnt_tokens' = total_burnt_tokens
       /\ pc = "record" =>
            /\ results'[Len(results')].TokensBurnt = tokens_burnt
            /\ Add(results'[Len(results')].TotalSupply,
                   results'[Len(results')].TotalBurntTokens)
                  = InitialTotalSupplyCurrent(config)
      ]_vars

\* C20 witness: a second month with a burn has been recorded, and the total
\* supply recorded is the initial one less both burns.
C20_Witness ==
    \E i, j \in Months :
        /\ i < j
        /\ Lt(Zero, results[i].TokensBurnt)
        /\ Lt(Zero, results[j].TokensBurnt)
        /\ Lt(results[j].TotalSupply, results[i].TotalSupply)
        /\ Lt(results[i].TotalSupply, InitialTotalSupplyCurrent(config))
====
